---- MODULE Spec2Model ----
(***************************************************************************)
(* Model of lblTools.py: the multi-pass orchestrator LblObject.run, the    *)
(* panel decoder readTape12, the panel writer LblObject.writeReflectance   *)
(* and the pressure-grid interpolation interP.                             *)
(*                                                                         *)
(* Numbers.  Wavenumbers and pressures are integers.  Spectral values      *)
(* (optical depth, radiance, reflectance, polynomial coefficients) are     *)
(* fixed-point integers counting ten-thousandths: 3.0 is 30000.  A Python *)
(* list or numpy array is a sequence, a dict is a function on its keys.    *)
(***************************************************************************)
EXTENDS Integers, Sequences, FiniteSets, TLC

VARIABLES
  pc,                 \* position of the running call of LblObject.run
  kw,                 \* the keyword arguments of the call (the four flags)
  rtParameters,       \* the caller's request dict
  flags,              \* the effective flags after lines 1306-1312
  outputGrid,         \* the uniform wavenumber grid of line 1303
  output,             \* the result dict being accumulated
  localRtParameters,  \* the derived per-pass copy of the request
  calls,              \* history: the solver invocations made so far, each with
                      \* its return and whether that held the pass's kind, and the
                      \* composition once its try block has run to the end
  tpc,                \* position of a call of readTape12
  tpanels,            \* the panels the producer of the binary file wrote
  targs,              \* the arguments and platform of the readTape12 call
  tstream,            \* the records of the binary file
  tret,               \* what readTape12 returned
  wreq,               \* the arguments of a call of writeReflectance
  ipc,                \* position of a call of interP
  iargs,              \* the arguments p, pin, vin, rh of the call
  iret,               \* what interP returned
  cwd,                \* the working directory of the process
  opc,                \* position of each LblObject instance of the process
  ops                 \* history: the scratch files touched and the solver
                      \* invocations made, each with its instance and directory

runVars == <<pc, kw, rtParameters, flags, outputGrid, output, localRtParameters, calls>>

tapeVars == <<tpc, tpanels, targs, tstream, tret, wreq>>

interPVars == <<ipc, iargs, iret>>

processVars == <<cwd, opc, ops>>

vars == <<runVars, tapeVars, interPVars, processVars>>

(***************************************************************************)
(* Bounds of the model.                                                    *)
(***************************************************************************)
MaxGrid == 3          \* the request spans at most MaxGrid steps of dv
MaxPanels == 2        \* a binary file holds at most MaxPanels panels
MaxPoints == 4        \* a panel holds at most MaxPoints points
MaxLevels == 3        \* a source profile holds at most MaxLevels levels

(***************************************************************************)
(* Module constants, lines 28-36.                                          *)
(***************************************************************************)
OPTICAL_DEPTH == "opticalDepth"
RADIANCE == "radiance"
NUMBER_DENSITY == "numberDensity"
LAYER_OPTICAL_DEPTHS == "layerOpticalDepths"
SOLAR == "solar"
WAVE_NUMBER == "waveNumber"
SOLAR_OPTICAL_DEPTH == "solarOD"
SOLAR_RADIANCE == "solarRadiance"

\* LblObject.outputList, line 1131: output kind -> code written to TAPE5
outputList == [opticalDepth |-> 0, radiance |-> 1, solar |-> 2]

(***************************************************************************)
(* Fixed-point arithmetic on ten-thousandths.                              *)
(***************************************************************************)
Unit == 10 ^ 4

Mul(a, b) == (a * b) \div Unit

\* e^x for x >= 0 by its power series, term by term: term k is x^k / k!
RECURSIVE ExpSeries(_, _, _)
ExpSeries(x, term, k) ==
  IF term = 0 THEN 0
  ELSE term + ExpSeries(x, (term * x) \div (Unit * k), k + 1)

\* np.exp(-x) of line 1430, for an optical depth x >= 0
ExpNeg(x) == (Unit * Unit) \div ExpSeries(x, Unit, 1)

\* a dict with key k set to v (d[k] = v)
Put(d, k, v) == (k :> v) @@ d

Has(d, k) == k \in DOMAIN d

EmptyDict == [k \in {} |-> 0]

(***************************************************************************)
(* numpy.interp(x, xp, fp) as called on lines 1333, 1347, 1372 and 1409:   *)
(* one value per point of x, linear between the two source points found    *)
(* by the search, the first / last source value outside the source range.  *)
(* Sources of at most four points are searched linearly from the left.     *)
(***************************************************************************)
RECURSIVE LinearSearch(_, _, _)
LinearSearch(key, arr, i) ==
  IF i < Len(arr) /\ key >= arr[i + 1] THEN LinearSearch(key, arr, i + 1) ELSE i

\* np.interp for one point, the value of the point found taken as it is
InterpOneStep(x, xp, fp) ==
  IF x > xp[Len(xp)] THEN fp[Len(fp)]
  ELSE IF x < xp[1] THEN fp[1]
  ELSE fp[LinearSearch(x, xp, 1)]

InterpOne(x, xp, fp) ==
  IF x > xp[Len(xp)] THEN fp[Len(fp)]
  ELSE IF x < xp[1] THEN fp[1]
  ELSE LET j == LinearSearch(x, xp, 1) IN
       IF j = Len(xp) THEN fp[j]
       ELSE IF xp[j] = x THEN fp[j]
       ELSE ((fp[j + 1] - fp[j]) * (x - xp[j])) \div (xp[j + 1] - xp[j]) + fp[j]

Interp(x, xp, fp) == [i \in 1..Len(x) |-> InterpOne(x[i], xp, fp)]

\* elementwise helpers for numpy array arithmetic
Scale(a, c) == [i \in 1..Len(a) |-> a[i] * c]

\* a * num / den, the product taken in two parts to stay in range
ScaleDown(a, num, den) ==
  [i \in 1..Len(a) |-> (a[i] \div den) * num + ((a[i] % den) * num) \div den]

(***************************************************************************)
(* Unit conversions of the passes.                                         *)
(***************************************************************************)
CM2_TO_M2 == 10000                    \* the factor 1e4 of lines 1347, 1409
SolidAngleNum == 68                   \* 6.8e-5 of line 1410, as 68 / 1000000
SolidAngleDen == 1000000

\* line 1347: np.interp(...) * 1e4
RadianceEntry(grid, res) == Scale(Interp(grid, res[1], res[2]), CM2_TO_M2)

\* lines 1409-1411: np.interp(...) * 1e4, then *= 6.8e-5
SolarEntry(grid, res) ==
  ScaleDown(Scale(Interp(grid, res[1], res[2]), CM2_TO_M2), SolidAngleNum, SolidAngleDen)

\* lines 1333 and 1372: np.interp(...) with no conversion
DepthEntry(grid, res) == Interp(grid, res[1], res[2])

(***************************************************************************)
(* LblObject.genReflectance, lines 1246-1247: coeff[0] + coeff[1] * wn +   *)
(* coeff[2] * wn ** 2, elementwise over the grid.                          *)
(***************************************************************************)
\* mutant: the quadratic term taken linear in the wavenumber
genReflectanceLinear(wn, coeff) == coeff[1] + coeff[2] * wn + coeff[3] * wn

genReflectance(wn, coeff) == coeff[1] + coeff[2] * wn + coeff[3] * wn * wn

\* surfaceParameters[4:], the slice of lines 1423 and 1427
Slice4(s) == SubSeq(s, 5, Len(s))

\* line 1419: the surface parameters used when the request has none
DefaultSurface == <<3000000, 8000, 0, 0, 637, 0, 0>>

\* lines 1416-1419
SurfaceParameters(p) ==
  IF Has(p, "surfaceTerrain") THEN p["surfaceTerrain"] ELSE DefaultSurface

(***************************************************************************)
(* writeTape5, lines 608-1103, as far as it changes the dict it is given:  *)
(* lines 691-692 copy userDefinedLevels to udl, lines 738-739 add inFlag   *)
(* and iotFlag when missing.                                               *)
(***************************************************************************)
WriteTape5Udl(p) ==
  IF Has(p, "userDefinedLevels") THEN Put(p, "udl", p["userDefinedLevels"]) ELSE p

WriteTape5InFlag(p) == IF Has(p, "inFlag") THEN p ELSE Put(p, "inFlag", 0)

WriteTape5IotFlag(p) == IF Has(p, "iotFlag") THEN p ELSE Put(p, "iotFlag", 0)

WriteTape5(p) == WriteTape5IotFlag(WriteTape5InFlag(WriteTape5Udl(p)))

\* lines 1303-1304 with the end point v2 counted in
GridCountInclusive(p) == (2 * (p["v2"] - p["v1"]) + p["dv"]) \div (2 * p["dv"]) + 1

(***************************************************************************)
(* Line 1303: outputGrid, x * dv + v1 for x in range(int((v2-v1)/dv+0.5)). *)
(***************************************************************************)
GridCount(p) == (2 * (p["v2"] - p["v1"]) + p["dv"]) \div (2 * p["dv"])

MakeOutputGrid(p) == [x \in 1..GridCount(p) |-> (x - 1) * p["dv"] + p["v1"]]

(***************************************************************************)
(* Lines 1306-1312: an entry of the request overrides the keyword.         *)
(***************************************************************************)
FlagNames == {"opticalDepthFlag", "radianceFlag", "downwellingFlag", "upwellingFlag"}

\* lines 1306-1309 left out: the keyword argument alone
EffectiveFlagKeyword(p, k, name) == k[name]

EffectiveFlag(p, k, name) == IF Has(p, name) THEN p[name] ELSE k[name]

EffectiveFlags(p, k) ==
  [name \in FlagNames \cup {"tangentFlag"} |->
     IF name = "tangentFlag"
     THEN (IF Has(p, "tangentFlag") THEN p["tangentFlag"] ELSE FALSE)
     ELSE EffectiveFlag(p, k, name)]

(***************************************************************************)
(* The requests a caller passes and what the solver hands back.            *)
(***************************************************************************)
BaseRequest(v2, dv) ==
  [v1 |-> 2, v2 |-> v2, dv |-> dv, angle |-> 0, solarZenithAngle |-> 30,
   h1 |-> 5, h2 |-> 0]

\* optional entries of a request
RequestExtras ==
  { EmptyDict,
    [surfaceTerrain |-> <<3000000, 8000, 0, 0, 2000, 0, 0>>],
    [surfaceTerrain |-> <<3000000, 8000, 0, 0, 1000, 500, 100>>,
     output |-> 0, inFlag |-> 0, iotFlag |-> 0],
    [upwellingFlag |-> TRUE, tangentFlag |-> TRUE],
    [userDefinedLevels |-> 100, opticalDepthFlag |-> FALSE] }

Requests ==
  { e @@ BaseRequest(v2, dv) : e \in RequestExtras, v2 \in 3..(2 + MaxGrid), dv \in {1, 2} }

\* a spectrum the solver returns for one kind: <<wavenumbers, values>>; the
\* third optical depth spectrum is two decoded panels, the second starting
\* below the first
DepthSpectra ==
  { << <<2, 3, 4>>, <<0, 0, 0>> >>, << <<2, 4>>, <<0, 13862>> >>,
    << <<4, 5, 2, 3>>, <<400, 500, 200, 300>> >> }

RadianceSpectra == { << <<2, 3, 4>>, <<1, 1, 1>> >>, << <<3, 5>>, <<1, 3>> >> }

SolarSpectra == { << <<2, 3, 4>>, <<147059, 147059, 147059>> >>, << <<2, 4>>, <<0, 180000>> >> }

\* the mappings a solver invocation can return: every key set of keySets,
\* each key holding a spectrum of spectra
SolverReturns(keySets, spectra) ==
  { [k \in K |-> sp] : K \in keySets, sp \in spectra }

DepthKeySets ==
  { {}, {OPTICAL_DEPTH}, {NUMBER_DENSITY},
    {OPTICAL_DEPTH, NUMBER_DENSITY, LAYER_OPTICAL_DEPTHS} }

RadianceKeySets == { {}, {RADIANCE} }

DownRadianceKeySets == { {}, {RADIANCE}, {RADIANCE, OPTICAL_DEPTH} }

SolarKeySets == { {}, {RADIANCE}, {SOLAR, RADIANCE} }

(***************************************************************************)
(* LblObject.run, lines 1292-1497, one action per pass.                    *)
(***************************************************************************)
Call(pass, ok, results) == [pass |-> pass, ok |-> ok, results |-> results]

Performed(pass) == \E i \in 1..Len(calls) : calls[i].pass = pass

Failed(pass) == \E i \in 1..Len(calls) : calls[i].pass = pass /\ ~calls[i].ok

\* no call of readTape12 is in progress
TapeOff ==
  /\ tpc = "off"
  /\ tpanels = <<>>
  /\ targs = EmptyDict
  /\ tstream = <<>>
  /\ tret = EmptyDict
  /\ wreq = EmptyDict

\* no call of interP is in progress
InterPOff ==
  /\ ipc = "off"
  /\ iargs = EmptyDict
  /\ iret = EmptyDict

\* no LblObject instance is followed
ProcessOff ==
  /\ cwd = ""
  /\ opc = <<>>
  /\ ops = {}

Init ==
  /\ TapeOff
  /\ InterPOff
  /\ ProcessOff
  /\ pc = "start"
  /\ kw \in [FlagNames -> BOOLEAN]
  /\ rtParameters \in Requests
  /\ flags = EmptyDict
  /\ outputGrid = <<>>
  /\ output = EmptyDict
  /\ localRtParameters = EmptyDict
  /\ calls = <<>>

\* lines 1299-1320: the empty result, the output grid, the effective flags
Start ==
  /\ pc = "start"
  /\ output' = EmptyDict
  /\ outputGrid' = MakeOutputGrid(rtParameters)
  /\ flags' = EffectiveFlags(rtParameters, kw)
  /\ pc' = "opticalDepth"
  /\ UNCHANGED <<tapeVars, interPVars, processVars, kw, rtParameters, localRtParameters, calls>>

\* lines 1331-1338: what the optical-depth pass stores from the solver's return
StoreOpticalDepth(out, results, f, grid) ==
  IF Has(results, OPTICAL_DEPTH)
  THEN LET o1 == IF ~(f["downwellingFlag"] \/ f["upwellingFlag"])
                 THEN Put(out, WAVE_NUMBER, grid) ELSE out
           o2 == Put(o1, OPTICAL_DEPTH, DepthEntry(grid, results[OPTICAL_DEPTH]))
           o3 == IF Has(results, NUMBER_DENSITY)
                 THEN Put(o2, NUMBER_DENSITY, results[NUMBER_DENSITY]) ELSE o2
       IN IF Has(results, LAYER_OPTICAL_DEPTHS)
          THEN Put(o3, LAYER_OPTICAL_DEPTHS, results[LAYER_OPTICAL_DEPTHS]) ELSE o3
  ELSE out

\* lines 1322-1338
OpticalDepthPass ==
  /\ pc = "opticalDepth"
  /\ pc' = "radiance"
  /\ \/ /\ flags["opticalDepthFlag"]
        /\ rtParameters' = WriteTape5(Put(rtParameters, "output", outputList[OPTICAL_DEPTH]))
        /\ \E results \in SolverReturns(DepthKeySets, DepthSpectra) :
             /\ output' = StoreOpticalDepth(output, results, flags, outputGrid)
             /\ calls' = Append(calls, Call("opticalDepth", Has(results, OPTICAL_DEPTH), results))
     \/ /\ ~flags["opticalDepthFlag"]
        /\ UNCHANGED <<rtParameters, output, calls>>
  /\ UNCHANGED <<tapeVars, interPVars, processVars, kw, flags, outputGrid, localRtParameters>>

\* lines 1345-1347
StoreRadiance(out, results, f, grid) ==
  IF Has(results, RADIANCE)
  THEN LET o1 == IF f["radianceFlag"] THEN Put(out, WAVE_NUMBER, grid) ELSE out
       IN Put(o1, RADIANCE, RadianceEntry(grid, results[RADIANCE]))
  ELSE out

\* lines 1340-1347
RadiancePass ==
  /\ pc = "radiance"
  /\ pc' = "solarOD"
  /\ \/ /\ flags["radianceFlag"] \/ flags["downwellingFlag"] \/ flags["upwellingFlag"]
        /\ rtParameters' = WriteTape5(Put(rtParameters, "output", outputList[RADIANCE]))
        /\ \E results \in SolverReturns(RadianceKeySets, RadianceSpectra) :
             /\ output' = StoreRadiance(output, results, flags, outputGrid)
             /\ calls' = Append(calls, Call("radiance", Has(results, RADIANCE), results))
     \/ /\ ~(flags["radianceFlag"] \/ flags["downwellingFlag"] \/ flags["upwellingFlag"])
        /\ UNCHANGED <<rtParameters, output, calls>>
  /\ UNCHANGED <<tapeVars, interPVars, processVars, kw, flags, outputGrid, localRtParameters>>

Min(a, b) == IF a <= b THEN a ELSE b

\* lines 1357-1366: the request variant of the downwelling passes
DownwellingParameters(p, f) ==
  LET l1 == IF f["tangentFlag"]
            THEN Put(p, "h2", 0)
            ELSE Put(Put(p, "h2", 100000), "h1", Min(p["h1"], p["h2"]))
      l2 == Put(l1, "angle", p["solarZenithAngle"])
  IN Put(l2, "surfaceTerrain", <<0, 0, 0, 0, 0, 0, 0>>)

\* lines 1371-1373
StoreSolarOD(out, results, grid) ==
  IF Has(results, OPTICAL_DEPTH)
  THEN Put(out, SOLAR_OPTICAL_DEPTH, DepthEntry(grid, results[OPTICAL_DEPTH]))
  ELSE out

\* lines 1349-1373
SolarODPass ==
  /\ pc = "solarOD"
  /\ \/ /\ flags["downwellingFlag"] \/ flags["upwellingFlag"]
        /\ localRtParameters' =
             WriteTape5(Put(DownwellingParameters(rtParameters, flags),
                            "output", outputList[OPTICAL_DEPTH]))
        /\ \E results \in SolverReturns({{}, {OPTICAL_DEPTH}}, DepthSpectra) :
             /\ output' = StoreSolarOD(output, results, outputGrid)
             /\ calls' = Append(calls, Call("solarOD", Has(results, OPTICAL_DEPTH), results))
        /\ pc' = "downRadiance"
     \/ /\ ~(flags["downwellingFlag"] \/ flags["upwellingFlag"])
        /\ pc' = "upwelling"
        /\ UNCHANGED <<localRtParameters, output, calls>>
  /\ UNCHANGED <<tapeVars, interPVars, processVars, kw, rtParameters, flags, outputGrid>>

\* line 1377: wn, radiance = run(...) unpacks the return into two names
UnpacksToPair(results) == Cardinality(DOMAIN results) = 2

\* lines 1375-1378
DownRadiancePass ==
  /\ pc = "downRadiance"
  /\ localRtParameters' = WriteTape5(Put(localRtParameters, "output", outputList[RADIANCE]))
  /\ \E results \in SolverReturns(DownRadianceKeySets, RadianceSpectra) :
       /\ calls' = Append(calls, Call("downRadiance", Has(results, RADIANCE), results))
       /\ pc' = IF UnpacksToPair(results) THEN "solarIrradiance" ELSE "raised"
  /\ UNCHANGED <<tapeVars, interPVars, processVars, kw, rtParameters, flags, outputGrid, output>>

\* lines 1389-1411
StoreSolar(out, results, f, grid) ==
  IF Has(results, SOLAR)
  THEN LET o1 == IF ~f["upwellingFlag"] THEN Put(out, WAVE_NUMBER, grid) ELSE out
       IN Put(o1, SOLAR_RADIANCE, SolarEntry(grid, results[SOLAR]))
  ELSE out

\* lines 1382-1411
SolarIrradiancePass ==
  /\ pc = "solarIrradiance"
  /\ localRtParameters' =
       WriteTape5(Put(Put(Put(localRtParameters, "output", outputList[SOLAR]),
                          "inFlag", 0), "iotFlag", 1))
  /\ \E results \in SolverReturns(SolarKeySets, SolarSpectra) :
       /\ output' = StoreSolar(output, results, flags, outputGrid)
       /\ calls' = Append(calls, Call("solarIrradiance", Has(results, SOLAR), results))
  /\ pc' = "upwelling"
  /\ UNCHANGED <<tapeVars, interPVars, processVars, kw, rtParameters, flags, outputGrid>>

\* line 1427: the reflectance at every point of the output grid
Reflectance(grid, p) ==
  [i \in 1..Len(grid) |-> genReflectance(grid[i], Slice4(SurfaceParameters(p)))]

\* lines 1430-1431: solarRadiance * exp(-opticalDepth), then *= reflectance
Attenuated(out, refl) ==
  [i \in 1..Len(out[SOLAR_RADIANCE]) |->
     Mul(Mul(out[SOLAR_RADIANCE][i], ExpNeg(out[OPTICAL_DEPTH][i])), refl[i])]

\* line 1432: += radiance
WithRadiance(a, out) == [i \in 1..Len(a) |-> a[i] + out[RADIANCE][i]]

\* lines 1429-1438: the statements of the try block run in order until one
\* of them fails on a missing key; what was assigned before stays assigned
Compose(out, refl, grid) ==
  IF ~Has(out, SOLAR_RADIANCE) \/ ~Has(out, OPTICAL_DEPTH) THEN out
  ELSE IF ~Has(out, RADIANCE) THEN Put(out, SOLAR_RADIANCE, Attenuated(out, refl))
  ELSE Put(Put(out, SOLAR_RADIANCE, WithRadiance(Attenuated(out, refl), out)),
           WAVE_NUMBER, grid)

\* the try block ran to its last statement
Composable(out) ==
  Has(out, SOLAR_RADIANCE) /\ Has(out, OPTICAL_DEPTH) /\ Has(out, RADIANCE)

\* lines 1413-1438
UpwellingCompose ==
  /\ pc = "upwelling"
  /\ pc' = "cleanup"
  /\ \/ /\ flags["upwellingFlag"]
        /\ localRtParameters' = rtParameters
        /\ output' = Compose(output, Reflectance(outputGrid, rtParameters), outputGrid)
        /\ calls' = IF Composable(output)
                    THEN Append(calls, Call("upwellingCompose", TRUE, EmptyDict)) ELSE calls
     \/ /\ ~flags["upwellingFlag"]
        /\ UNCHANGED <<localRtParameters, output, calls>>
  /\ UNCHANGED <<tapeVars, interPVars, processVars, kw, rtParameters, flags, outputGrid>>

\* lines 1491-1497 followed by the passes once more instead of the return
ReturnRepeats ==
  /\ pc = "cleanup"
  /\ pc' = "opticalDepth"
  /\ UNCHANGED <<tapeVars, interPVars, processVars, kw, rtParameters, flags, outputGrid, output, localRtParameters, calls>>

\* lines 1491-1497: scratch files removed, the result returned
Return ==
  /\ pc = "cleanup"
  /\ pc' = "done"
  /\ UNCHANGED <<tapeVars, interPVars, processVars, kw, rtParameters, flags, outputGrid, output, localRtParameters, calls>>

Next ==
  \/ Start
  \/ OpticalDepthPass
  \/ RadiancePass
  \/ SolarODPass
  \/ DownRadiancePass
  \/ SolarIrradiancePass
  \/ UpwellingCompose
  \/ Return

Spec == Init /\ [][Next]_vars

(***************************************************************************)
(* Claims about LblObject.run.                                             *)
(***************************************************************************)
Upwelling == flags # EmptyDict /\ flags["upwellingFlag"]

\* the polynomial coefficients the composition reads: elements 4..6
\* (counted from 0) of the request's surfaceTerrain, or of the default list
TerrainCoeff(n) ==
  IF Has(rtParameters, "surfaceTerrain")
  THEN rtParameters["surfaceTerrain"][5 + n] ELSE DefaultSurface[5 + n]

PolyR(wn) == TerrainCoeff(0) + TerrainCoeff(1) * wn + TerrainCoeff(2) * wn * wn

\* C1: when upwellingFlag is set and solarRadiance, opticalDepth and radiance
\* are all present, the composition step replaces solarRadiance at every
\* point of the output grid by
\*   solarRadiance * exp(-opticalDepth) * R(wn) + radiance,
\* R(wn) = c0 + c1*wn + c2*wn^2 with the coefficients of surfaceTerrain; a
\* point with solarRadiance 10, opticalDepth 0, R 0.2, radiance 1 becomes 3.0
C1_UpwellingComposition ==
  [][(pc = "upwelling" /\ Upwelling /\ Composable(output)) =>
       /\ Has(output', SOLAR_RADIANCE)
       /\ Len(output'[SOLAR_RADIANCE]) = Len(outputGrid)
       /\ \A i \in 1..Len(outputGrid) :
            /\ output'[SOLAR_RADIANCE][i] =
                 ((((output[SOLAR_RADIANCE][i] * ExpNeg(output[OPTICAL_DEPTH][i])) \div Unit)
                    * PolyR(outputGrid[i])) \div Unit) + output[RADIANCE][i]
            /\ (/\ output[SOLAR_RADIANCE][i] = 10 * Unit
                /\ output[OPTICAL_DEPTH][i] = 0
                /\ PolyR(outputGrid[i]) = 2 * (Unit \div 10)
                /\ output[RADIANCE][i] = Unit)
               => output'[SOLAR_RADIANCE][i] = 3 * Unit]_vars

\* C1 witness: a returned result composed at a point where the inputs were
\* 10, 0, 0.2 and 1 (the optical depth and radiance entries are not changed
\* by the composition), giving 3.0, and one composed with a reflectance that
\* depends on the wavenumber
C1_Witness ==
  /\ pc = "done"
  /\ Performed("upwellingCompose")
  /\ \E i \in 1..Len(outputGrid) :
       /\ output[OPTICAL_DEPTH][i] = 0
       /\ output[RADIANCE][i] = Unit
       /\ PolyR(outputGrid[i]) = 2 * (Unit \div 10)
       /\ output[SOLAR_RADIANCE][i] = 3 * Unit

C1_WitnessQuadratic ==
  /\ pc = "done"
  /\ Performed("upwellingCompose")
  /\ TerrainCoeff(2) # 0
  /\ \E i \in 1..Len(outputGrid) : output[SOLAR_RADIANCE][i] > output[RADIANCE][i]

\* C2: when upwellingFlag is set and one of solarRadiance, opticalDepth and
\* radiance is absent, the run does not raise and the composition step
\* alters no entry of the result
C2_CompositionSkippedWhole ==
  [][(pc = "upwelling" /\ Upwelling /\ ~Composable(output)) =>
       (output' = output /\ pc' # "raised")]_vars

\* C3: with upwellingFlag set, the returned result has a solarRadiance
\* entry only if the composition was performed
C3_SolarRadianceOnlyIfComposed ==
  (pc = "done" /\ Upwelling /\ Has(output, SOLAR_RADIANCE)) => Performed("upwellingCompose")

\* the key under which a pass stores its output
PassKey(pass) ==
  CASE pass = "opticalDepth" -> OPTICAL_DEPTH
    [] pass = "radiance" -> RADIANCE
    [] pass = "solarOD" -> SOLAR_OPTICAL_DEPTH
    [] pass = "solarIrradiance" -> SOLAR_RADIANCE
    [] OTHER -> "none"

\* the solver passes the flags select
Selected(pass) ==
  CASE pass = "opticalDepth" -> flags["opticalDepthFlag"]
    [] pass = "radiance" ->
         flags["radianceFlag"] \/ flags["downwellingFlag"] \/ flags["upwellingFlag"]
    [] OTHER -> flags["downwellingFlag"] \/ flags["upwellingFlag"]

SolverPasses == {"opticalDepth", "radiance", "solarOD", "downRadiance", "solarIrradiance"}

\* C4: a solver pass that fails to produce its output does not make run
\* raise, leaves its key out of the result, and every later pass the flags
\* select is still performed
C4_FailedPassNonFatal ==
  /\ pc # "raised"
  /\ \A pass \in SolverPasses : Failed(pass) => ~Has(output, PassKey(pass))
  /\ pc = "done" => \A pass \in SolverPasses : Selected(pass) => Performed(pass)

\* C5: run leaves the caller's rtParameters as it was
C5_RequestUnchanged == [][rtParameters' = rtParameters]_vars

(***************************************************************************)
(* The binary file read by readTape12.  A file is a sequence of records;   *)
(* a record is the format it was written with, its length in bytes and     *)
(* the values packed into it.  A record whose framing markers do not       *)
(* match has the format "bad".                                             *)
(***************************************************************************)
Rec(fmt, bytes, fields) == [fmt |-> fmt, bytes |-> bytes, fields |-> fields]

BadRecord == Rec("bad", 0, <<>>)

\* struct.calcsize of a panel-header format (native alignment)
CalcSize(fmt) ==
  CASE fmt = "dddq" -> 8 + 8 + 8 + 8
    [] fmt = "dddl" -> 8 + 8 + 8 + 4
    [] fmt = "ddfi" -> 8 + 8 + 4 + 4

\* lines 382-383 and 393-394: the panel-header format; longSize is
\* struct.calcsize('l') of the platform
HeaderFormat(double, longSize) ==
  IF double THEN "dddq"
  ELSE IF longSize = 8 THEN "dddq" ELSE "dddl"

\* element format and size read by readDoubleVector / readFloatVector
ElemFormat(double) == IF double THEN "d" ELSE "f"

ElemSize(double) == IF double THEN 8 ELSE 4

\* what reading bytes in another format than they were written in gives
Junk == 0 - 1

\* line 356: struct.unpack(lfmt, buff) of a record of calcsize(lfmt) bytes
Unpack(lfmt, rec) == IF rec.fmt = lfmt THEN rec.fields ELSE <<Junk, Junk, Junk, Junk>>

\* FortranFile.readFloatVector / readDoubleVector: the next record can be
\* read as a vector if there is one, its framing is sound and its length is
\* a whole number of elements
VectorReadable(stream, pos, double) ==
  /\ pos <= Len(stream)
  /\ stream[pos].fmt # "bad"
  /\ stream[pos].bytes % ElemSize(double) = 0

VectorValues(rec, double) ==
  IF rec.fmt = ElemFormat(double) THEN rec.fields
  ELSE [i \in 1..(rec.bytes \div ElemSize(double)) |-> Junk]

\* lines 348-351: records are read until one has the size of a panel
\* header or the file ends; a record with broken framing raises
RECURSIVE ScanHeader(_, _, _)
ScanHeader(stream, pos, size) ==
  IF pos > Len(stream) THEN [pos |-> pos, raised |-> FALSE]
  ELSE IF stream[pos].fmt = "bad" THEN [pos |-> pos, raised |-> TRUE]
  ELSE IF stream[pos].bytes # size THEN ScanHeader(stream, pos + 1, size)
  ELSE [pos |-> pos, raised |-> FALSE]

\* lines 358-362: one vector per output variable, each concatenated onto
\* its slot as soon as it is read; the first unreadable vector ends the loop
\* with the slots as they are
RECURSIVE ReadVariables(_, _, _, _, _, _)
ReadVariables(stream, pos, i, nvars, double, acc) ==
  IF i > nvars THEN [ok |-> TRUE, pos |-> pos, outParam |-> acc.outParam, data |-> acc.data]
  ELSE IF ~VectorReadable(stream, pos, double)
       THEN [ok |-> FALSE, pos |-> pos, outParam |-> acc.outParam, data |-> acc.data]
  ELSE LET data == VectorValues(stream[pos], double) IN
       ReadVariables(stream, pos + 1, i + 1, nvars, double,
                     [outParam |-> [acc.outParam EXCEPT ![i] = @ \o data], data |-> data])

\* mutant: the wavenumbers counted from one step after the start
PanelWaveNumbersShifted(v1, dv, count) == [x \in 1..count |-> v1 + x * dv]

\* lines 365-366: map(lambda x: v1 + x * dv, range(len(data)))
PanelWaveNumbers(v1, dv, count) == [x \in 1..count |-> v1 + (x - 1) * dv]

\* readLBLPanel, lines 343-378; read counts the records taken from the file
RECURSIVE ReadLBLPanel(_, _, _, _, _, _)
ReadLBLPanel(stream, pos, lfmt, double, nvars, acc) ==
  LET h == ScanHeader(stream, pos, CalcSize(lfmt)) IN
  IF h.raised
  THEN [raised |-> TRUE, wn |-> acc.outWN, out |-> acc.outParam, stopped |-> "raise",
        panels |-> acc.panels, read |-> h.pos - 1]
  ELSE IF h.pos > Len(stream)
  THEN [raised |-> FALSE, wn |-> acc.outWN, out |-> acc.outParam, stopped |-> "eof",
        panels |-> acc.panels, read |-> Len(stream)]
  ELSE LET hdr == Unpack(lfmt, stream[h.pos])
           d == ReadVariables(stream, h.pos + 1, 1, nvars, double,
                              [outParam |-> acc.outParam, data |-> <<>>])
       IN IF d.ok /\ nvars > 0
          THEN ReadLBLPanel(stream, d.pos, lfmt, double, nvars,
                 [outWN |-> acc.outWN \o PanelWaveNumbers(hdr[1], hdr[3], Len(d.data)),
                  outParam |-> d.outParam, panels |-> acc.panels + 1])
          ELSE [raised |-> FALSE, wn |-> acc.outWN, out |-> d.outParam, stopped |-> "error",
                panels |-> acc.panels, read |-> d.pos - 1]

\* mutant: the first record taken for the first record of the panels
ReadTape12FromFirst(stream, double, longSize, nvars) ==
  ReadLBLPanel(stream, 1, HeaderFormat(double, longSize), double, nvars,
               [outWN |-> <<>>, outParam |-> [j \in 1..nvars |-> <<>>], panels |-> 0])

\* readTape12, lines 381-399: the first record is the file header; wn and
\* out are returned, raised tells that an exception left the function;
\* stopped, panels and read are not part of what the caller gets
ReadTape12(stream, double, longSize, nvars) ==
  IF Len(stream) >= 1 /\ stream[1].fmt = "bad"
  THEN [raised |-> TRUE, wn |-> <<>>, out |-> <<>>, stopped |-> "raise", panels |-> 0,
        read |-> 0]
  ELSE ReadLBLPanel(stream, 2, HeaderFormat(double, longSize), double, nvars,
                    [outWN |-> <<>>, outParam |-> [j \in 1..nvars |-> <<>>], panels |-> 0])

\* line 399: the pair handed to the caller
Returned(r) == <<r.wn, r.out>>

(***************************************************************************)
(* The files given to readTape12: what a producer writes for a list of     *)
(* panels in the format readTape12 expects, whole or damaged.              *)
(***************************************************************************)
FileHeaderBytes == 1056

FileHeader == Rec("file", FileHeaderBytes, <<>>)

\* the j-th data vector of a panel
PanelVector(panel, j) == [k \in 1..panel.n |-> panel.base + 10 * j + k]

PanelRecords(panel, lfmt, double, nvars) ==
  << Rec(lfmt, CalcSize(lfmt),
         <<panel.v1, panel.v1 + (panel.n - 1) * panel.dv, panel.dv, panel.n>>) >>
  \o [j \in 1..nvars |->
        Rec(ElemFormat(double), ElemSize(double) * panel.n, PanelVector(panel, j))]

RECURSIVE PanelsRecords(_, _, _, _)
PanelsRecords(panels, lfmt, double, nvars) ==
  IF panels = <<>> THEN <<>>
  ELSE PanelRecords(Head(panels), lfmt, double, nvars)
       \o PanelsRecords(Tail(panels), lfmt, double, nvars)

WellFormedFile(panels, args) ==
  <<FileHeader>>
  \o PanelsRecords(panels, HeaderFormat(args.double, args.longSize), args.double, args.nvars)

PanelChoices ==
  { [v1 |-> v1, dv |-> v1 - 9, n |-> n, base |-> 100 * v1] :
      v1 \in {10, 11}, n \in 1..MaxPoints }

PanelLists == UNION { [1..m -> PanelChoices] : m \in 0..MaxPanels }

TapeArgs ==
  { [double |-> d, longSize |-> l, nvars |-> nv] :
      d \in BOOLEAN, l \in {4, 8}, nv \in 1..2 }

\* an unrelated record, of a size no panel header has
OtherRecord == Rec("other", 12, <<7, 7, 7>>)

\* a well-framed record of the same element format holding other values
Resized(rec, values) ==
  Rec(rec.fmt, (rec.bytes \div Len(rec.fields)) * Len(values), values)

\* a file as written, cut short after k records, with an unrelated record
\* put in after the k-th record, with the k-th record's framing broken, with
\* one value more or less in the k-th record, or with a file header that has
\* the size of a panel header
Damaged(file, kind, k) ==
  CASE kind = "none" -> file
    [] kind = "cut" -> SubSeq(file, 1, k)
    [] kind = "insert" -> SubSeq(file, 1, k) \o <<OtherRecord>> \o SubSeq(file, k + 1, Len(file))
    [] kind = "bad" -> [file EXCEPT ![k] = BadRecord]
    [] kind = "long" -> [file EXCEPT ![k] = Resized(file[k], file[k].fields \o <<0>>)]
    [] kind = "short" ->
         [file EXCEPT ![k] = Resized(file[k], SubSeq(file[k].fields, 1, Len(file[k].fields) - 1))]
    [] kind = "head" -> [file EXCEPT ![1] = Rec("file", file[2].bytes, <<>>)]

DamageKinds == {"none", "cut", "insert", "bad", "long", "short", "head"}

\* the records of a file a kind of damage applies to: a data vector for one
\* value more, a data vector of two values or more for one value less, the
\* file header of a file with a panel for the header of another size
DamageApplies(file, kind, k) ==
  /\ kind \in {"none", "head"} => k = 1
  /\ kind = "head" => Len(file) >= 2
  /\ kind \in {"long", "short"} => file[k].fmt \in {"f", "d"}
  /\ kind = "short" => Len(file[k].fields) >= 2


\* no call of LblObject.run is in progress
RunOff ==
  /\ pc = "off"
  /\ kw = EmptyDict
  /\ rtParameters = EmptyDict
  /\ flags = EmptyDict
  /\ outputGrid = <<>>
  /\ output = EmptyDict
  /\ localRtParameters = EmptyDict
  /\ calls = <<>>

(***************************************************************************)
(* LblObject.writeReflectance, lines 1249-1290.  v1, v2 and dv are whole   *)
(* numbers of cm-1.  When the grid is too long dv becomes the fraction     *)
(* (v2 - v1 + 8) / (maxWN - 1); every wavenumber is then counted in units  *)
(* of 1 / den cm-1, den = maxWN - 1 (den = 1 otherwise).                   *)
(***************************************************************************)
maxWN == 24000
maxBlock == 2400
guardWN == 4

\* line 1289: the point count of the terminating header, -99
EndMarker == 0 - 99

\* Python's round(a / b) for a >= 0, b > 0: to nearest, a half to even
RoundHalfEven(a, b) ==
  LET q == a \div b
      r == a % b
  IN IF 2 * r < b THEN q
     ELSE IF 2 * r > b THEN q + 1
     ELSE IF q % 2 = 0 THEN q ELSE q + 1

\* Python's int(a / b) for b > 0: towards zero
TruncDiv(a, b) == IF a >= 0 THEN a \div b ELSE 0 - ((0 - a) \div b)

\* line 1261
CountWN(span, dv) == RoundHalfEven(span, dv) + 1

\* lines 1262-1264: the scale of the wavenumbers, the step in that scale
\* and the number of points
GridDen(span, dv) == IF CountWN(span, dv) > maxWN THEN maxWN - 1 ELSE 1

GridStep(span, dv) == IF CountWN(span, dv) > maxWN THEN span ELSE dv

GridPoints(span, dv) ==
  IF CountWN(span, dv) > maxWN
  THEN CountWN(span * GridDen(span, dv), GridStep(span, dv))
  ELSE CountWN(span, dv)

\* line 1286: the reflectance at a wavenumber counted in units of 1 / den
ReflectanceAt(wn, den, coeff) ==
  IF den = 1 THEN genReflectance(wn, coeff)
  ELSE coeff[1] + (coeff[2] * wn) \div den + (coeff[3] * wn * wn) \div (den * den)

\* lines 1277-1287: one block per start index 0, maxBlock, 2*maxBlock, ...
\* below nWN; g carries startWN and endWN from block to block
RECURSIVE WriteBlocks(_, _, _, _, _)
WriteBlocks(startIndex, nWN, g, coeff, recs) ==
  IF startIndex >= nWN THEN [recs |-> recs, endWN |-> g.endWN]
  ELSE LET startWN == g.startWN + startIndex * g.dv
           end1 == startWN + (maxBlock - 1) * g.dv
           end2 == IF end1 > g.limit THEN g.limit ELSE end1
           nBlock == TruncDiv(2 * (end2 - startWN) + g.dv, 2 * g.dv) + 1
           endWN == startWN + (nBlock - 1) * g.dv
           refl == [x \in 1..nBlock |-> ReflectanceAt(startWN + (x - 1) * g.dv, g.den, coeff)]
       IN WriteBlocks(startIndex + maxBlock, nWN,
                      [g EXCEPT !.startWN = startWN, !.endWN = endWN], coeff,
                      recs \o << Rec("ddfi", CalcSize("ddfi"), <<startWN, endWN, g.dv, nBlock>>),
                                 Rec("f", 4 * Len(refl), refl) >>)

\* the records of the file written by writeReflectance(v1, v2, dv, reflCoeff)
WriteReflectance(v1, v2, dv, coeff) ==
  LET span == v2 - v1 + 2 * guardWN
      den == GridDen(span, dv)
      step == GridStep(span, dv)
      nWN == GridPoints(span, dv)
      startWN == (v1 - guardWN) * den
      endWN == startWN + (nWN - 1) * step
      w == WriteBlocks(0, nWN,
                       [startWN |-> startWN, endWN |-> endWN, dv |-> step, den |-> den,
                        limit |-> (v2 + guardWN) * den],
                       coeff,
                       << Rec("file", FileHeaderBytes, <<step, startWN, endWN>>) >>)
  IN w.recs \o << Rec("ddfi", CalcSize("ddfi"), <<w.endWN + step, w.endWN, step, EndMarker>>) >>

WriterRequests ==
  { [v1 |-> v1, v2 |-> v1 + w, dv |-> dv, coeff |-> c] :
      v1 \in {2, 3}, w \in 0..(MaxGrid + 4), dv \in {1, 2},
      c \in { <<2000, 0, 0>>, <<1000, 500, 100>> } }
  \cup
  \* grids of maxBlock + 1 and 2 * maxBlock + 1 points: two and three blocks
  { [v1 |-> 2, v2 |-> 2 + b * maxBlock - 2 * guardWN, dv |-> 1, coeff |-> <<2000, 0, 0>>] :
      b \in 1..2 }

\* a file about to be read by readTape12
ReaderInit ==
  /\ tpc = "ready"
  /\ tpanels \in PanelLists
  /\ \E a \in TapeArgs, kind \in DamageKinds :
       LET file == WellFormedFile(tpanels, a) IN
       \E k \in 1..Len(file) :
         /\ DamageApplies(file, kind, k)
         /\ targs = a @@ [damage |-> kind, at |-> k]
         /\ tstream = Damaged(file, kind, k)
  /\ tret = EmptyDict
  /\ wreq = EmptyDict

\* a file about to be written by writeReflectance and then read back as
\* single-precision data with one output variable
WriterInit ==
  /\ tpc = "write"
  /\ tpanels = <<>>
  /\ \E a \in TapeArgs :
       /\ ~a.double /\ a.nvars = 1
       /\ targs = a @@ [damage |-> "none", at |-> 1]
  /\ tstream = <<>>
  /\ tret = EmptyDict
  /\ wreq \in WriterRequests

TapeInit ==
  /\ RunOff
  /\ InterPOff
  /\ ProcessOff
  /\ ReaderInit \/ WriterInit

\* a call writeReflectance(v1, v2, dv, reflCoeff)
WriteReflectanceCall ==
  /\ tpc = "write"
  /\ tstream' = WriteReflectance(wreq.v1, wreq.v2, wreq.dv, wreq.coeff)
  /\ tpc' = "ready"
  /\ UNCHANGED <<runVars, interPVars, processVars, tpanels, targs, tret, wreq>>

\* a call readTape12(fileName, double, output_variables_per_panel)
ReadTape12Call ==
  /\ tpc = "ready"
  /\ tret' = ReadTape12(tstream, targs.double, targs.longSize, targs.nvars)
  /\ tpc' = IF tret'.raised THEN "raised" ELSE "returned"
  /\ UNCHANGED <<runVars, interPVars, processVars, tpanels, targs, tstream, wreq>>

TapeNext == WriteReflectanceCall \/ ReadTape12Call

SpecTape == TapeInit /\ [][TapeNext]_vars

(***************************************************************************)
(* Claims about readTape12.                                                *)
(***************************************************************************)
TapeDone == tpc \in {"returned", "raised"}

\* the number of points written before panel i
RECURSIVE PointsBefore(_, _)
PointsBefore(panels, i) ==
  IF i <= 1 THEN 0 ELSE PointsBefore(panels, i - 1) + panels[i - 1].n

\* the returned arrays are the panels of the list, point by point in order
HoldsPanels(ret, panels, nvars) ==
  /\ Len(ret.wn) = PointsBefore(panels, Len(panels) + 1)
  /\ \A j \in 1..nvars : Len(ret.out[j]) = PointsBefore(panels, Len(panels) + 1)
  /\ \A i \in 1..Len(panels) : \A k \in 0..(panels[i].n - 1) :
       /\ ret.wn[PointsBefore(panels, i) + k + 1] = panels[i].v1 + k * panels[i].dv
       /\ \A j \in 1..nvars :
            ret.out[j][PointsBefore(panels, i) + k + 1] = panels[i].base + 10 * j + k + 1

\* C6: when reading a panel fails part-way, readTape12 does not raise and
\* returns exactly the panels fully read before: every output slot has the
\* length of the wavenumber array and, for a file cut short, the arrays hold
\* the complete panels before the cut and nothing of the failed panel
C6_PartialPanelDropped ==
  (TapeDone /\ wreq = EmptyDict /\ tret.stopped = "error") =>
    /\ tpc = "returned"
    /\ \A j \in 1..targs.nvars : Len(tret.out[j]) = Len(tret.wn)
    /\ targs.damage = "cut" =>
         HoldsPanels(tret, SubSeq(tpanels, 1, tret.panels), targs.nvars)

\* C7: the return of a decode that stopped on an undecodable panel differs
\* from the return of every decode that ended cleanly at the end of a file
C7_TruncationVisible ==
  (tpc = "returned" /\ wreq = EmptyDict /\ tret.stopped = "error") =>
    \A pl \in PanelLists :
      LET clean == ReadTape12(WellFormedFile(pl, targs), targs.double, targs.longSize,
                              targs.nvars)
      IN clean.stopped = "eof" => Returned(clean) # Returned(tret)

\* C8: for a well-formed file (file header, then the panels, each a header
\* and nvars vectors of pointCount values) readTape12 returns the
\* wavenumbers start_i + k*delta_i and in slot j the j-th vectors, panel
\* after panel in file order, nothing sorted, merged or dropped
C8_WellFormedDecode ==
  (TapeDone /\ wreq = EmptyDict /\ targs.damage = "none") =>
    /\ tpc = "returned"
    /\ tret.stopped = "eof"
    /\ HoldsPanels(tret, tpanels, targs.nvars)

\* C8 witness: two panels decoded, the second starting below the first and
\* overlapping it, two output variables
C8_Witness ==
  /\ tpc = "returned"
  /\ wreq = EmptyDict
  /\ targs.damage = "none"
  /\ targs.nvars = 2
  /\ Len(tpanels) = 2
  /\ tpanels[1].v1 > tpanels[2].v1
  /\ tpanels[1].n > 1
  /\ Len(tret.wn) = tpanels[1].n + tpanels[2].n
  /\ tret.wn[1] > tret.wn[Len(tret.wn)]

\* the blocks a written file holds: the positions of its panel headers,
\* the terminating header (point count -99) left out
WrittenBlocks(stream) ==
  { i \in 1..Len(stream) : stream[i].fmt = "ddfi" /\ stream[i].fields[4] # EndMarker }

\* the number of points written in the blocks before record i
RECURSIVE WrittenBefore(_, _)
WrittenBefore(stream, i) ==
  IF i <= 1 THEN 0
  ELSE WrittenBefore(stream, i - 1)
       + (IF (i - 1) \in WrittenBlocks(stream) THEN stream[i - 1].fields[4] ELSE 0)

\* C9: a file written by writeReflectance is decoded by readTape12 into the
\* wavenumbers start_i + k*delta_i of every written point and the values
\* written
C9_WriterDecoderAgree ==
  (TapeDone /\ wreq # EmptyDict) =>
    /\ tpc = "returned"
    /\ Len(tret.wn) = WrittenBefore(tstream, Len(tstream) + 1)
    /\ Len(tret.out[1]) = Len(tret.wn)
    /\ \A i \in WrittenBlocks(tstream) : \A k \in 0..(tstream[i].fields[4] - 1) :
         /\ tret.wn[WrittenBefore(tstream, i) + k + 1]
              = tstream[i].fields[1] + k * tstream[i].fields[3]
         /\ tret.out[1][WrittenBefore(tstream, i) + k + 1] = tstream[i + 1].fields[k + 1]

(***************************************************************************)
(* interP, lines 38-103.  Pressures are whole numbers, profile values are  *)
(* counted in 1 / Unit; a Python list is a sequence, and a list index k of *)
(* the code is the position k + 1 here.                                    *)
(***************************************************************************)

\* the largest k with 2^k <= x
RECURSIVE Log2Floor(_)
Log2Floor(x) == IF x < 2 THEN 0 ELSE 1 + Log2Floor(x \div 2)

\* math.log of m / Unit for Unit <= m < 2 * Unit, in 1 / Unit:
\* 2 * (y + y^3 / 3 + y^5 / 5 + y^7 / 7) with y = (m - 1) / (m + 1)
LogMantissa(m) ==
  LET y  == ((m - Unit) * Unit) \div (m + Unit)
      y2 == Mul(y, y)
      y3 == Mul(y, y2)
      y5 == Mul(y3, y2)
      y7 == Mul(y5, y2)
  IN 2 * (y + y3 \div 3 + y5 \div 5 + y7 \div 7)

\* math.log(x) of lines 91-92 for a whole x >= 1, in 1 / Unit
Log(x) ==
  LET k == Log2Floor(x)
  IN k * 6931 + LogMantissa((x * Unit) \div (2 ^ k))

\* the sentinel distance of lines 53-54, 74 and 81
Far == 999999

\* line 97: the values 0.003 and 0.001
RhLimit == (3 * Unit) \div 1000
RhFloor == Unit \div 1000

\* lines 56-69, the break of line 68 left out: the scan goes on to the last
\* source point equal to the query
RECURSIVE FirstLoopNoBreak(_, _, _, _, _, _)
FirstLoopNoBreak(p1, pin, k, mmin, mmax, hit) ==
  IF k > Len(pin) THEN [cont |-> hit > 0, k |-> hit, mmin |-> mmin, mmax |-> mmax]
  ELSE IF p1 = pin[k] THEN FirstLoopNoBreak(p1, pin, k + 1, mmin, mmax, k)
  ELSE LET gg == pin[k] - p1
       IN IF gg > 0 /\ gg < mmax[1]
          THEN FirstLoopNoBreak(p1, pin, k + 1, mmin, <<gg, pin[k], k>>, hit)
          ELSE IF gg < 0 /\ gg > mmin[1]
          THEN FirstLoopNoBreak(p1, pin, k + 1, <<gg, pin[k], k>>, mmax, hit)
          ELSE FirstLoopNoBreak(p1, pin, k + 1, mmin, mmax, hit)

\* lines 56-69: the nearest source point above and below the query, the
\* scan ending at the first source point equal to the query
RECURSIVE FirstLoop(_, _, _, _, _, _)
FirstLoop(p1, pin, k, mmin, mmax, hit) ==
  IF k > Len(pin) THEN [cont |-> FALSE, k |-> hit, mmin |-> mmin, mmax |-> mmax]
  ELSE IF p1 = pin[k] THEN [cont |-> TRUE, k |-> k, mmin |-> mmin, mmax |-> mmax]
  ELSE LET gg == pin[k] - p1
       IN IF gg > 0 /\ gg < mmax[1]
          THEN FirstLoop(p1, pin, k + 1, mmin, <<gg, pin[k], k>>, hit)
          ELSE IF gg < 0 /\ gg > mmin[1]
          THEN FirstLoop(p1, pin, k + 1, <<gg, pin[k], k>>, mmax, hit)
          ELSE FirstLoop(p1, pin, k + 1, mmin, mmax, hit)

\* lines 75-78 without the test k != mmin[2]
RECURSIVE SecondBelowSame(_, _, _, _, _)
SecondBelowSame(p1, pin, k, mmin, mmax) ==
  IF k > Len(pin) THEN [raised |-> FALSE, m |-> mmax]
  ELSE IF p1 = pin[k] THEN SecondBelowSame(p1, pin, k + 1, mmin, mmax)
  ELSE LET gg == pin[k] - p1
       IN IF gg < 0 /\ gg > mmax[1]
          THEN SecondBelowSame(p1, pin, k + 1, mmin, <<gg, pin[k], k>>)
          ELSE SecondBelowSame(p1, pin, k + 1, mmin, mmax)

\* lines 75-78: no source point lies above the query; the nearest point
\* below it other than mmin.  Reading mmin[2] of a two-element list raises.
RECURSIVE SecondBelow(_, _, _, _, _)
SecondBelow(p1, pin, k, mmin, mmax) ==
  IF k > Len(pin) THEN [raised |-> FALSE, m |-> mmax]
  ELSE IF p1 = pin[k] THEN SecondBelow(p1, pin, k + 1, mmin, mmax)
  ELSE IF Len(mmin) < 3 THEN [raised |-> TRUE, m |-> mmax]
  ELSE IF k = mmin[3] THEN SecondBelow(p1, pin, k + 1, mmin, mmax)
  ELSE LET gg == pin[k] - p1
       IN IF gg < 0 /\ gg > mmax[1]
          THEN SecondBelow(p1, pin, k + 1, mmin, <<gg, pin[k], k>>)
          ELSE SecondBelow(p1, pin, k + 1, mmin, mmax)

\* lines 83-87, run for every query that has no equal source point: the
\* nearest point above the query other than mmax.  Reading mmax[2] of a
\* two-element list raises.
RECURSIVE SecondAbove(_, _, _, _, _)
SecondAbove(p1, pin, k, mmin, mmax) ==
  IF k > Len(pin) THEN [raised |-> FALSE, m |-> mmin]
  ELSE IF p1 = pin[k] THEN SecondAbove(p1, pin, k + 1, mmin, mmax)
  ELSE IF Len(mmax) < 3 THEN [raised |-> TRUE, m |-> mmin]
  ELSE IF k = mmax[3] THEN SecondAbove(p1, pin, k + 1, mmin, mmax)
  ELSE LET gg == pin[k] - p1
       IN IF gg > 0 /\ gg < mmin[1]
          THEN SecondAbove(p1, pin, k + 1, <<gg, pin[k], k>>, mmax)
          ELSE SecondAbove(p1, pin, k + 1, mmin, mmax)

\* line 97 with the test of rh left out
ClampAlways(hh, p1, rh) ==
  IF p1 < 100 /\ hh > RhLimit THEN RhFloor ELSE hh

\* line 97; rh is <<>> for None
Clamp(hh, p1, rh) ==
  IF rh # <<>> /\ p1 < 100 /\ hh > RhLimit THEN RhFloor ELSE hh

\* lines 91-97 with the weights taken in p instead of log p
LinearInterpolate(p1, vin, mmin, mmax, rh) ==
  IF Len(mmax) < 3 \/ Len(mmin) < 3 \/ mmax[2] = mmin[2]
  THEN [raised |-> TRUE, value |-> 0]
  ELSE LET z3 == vin[mmax[3]] - vin[mmin[3]]
           z4 == vin[mmin[3]]
           hh == z4 + Mul(((p1 - mmin[2]) * Unit) \div (mmax[2] - mmin[2]), z3)
       IN [raised |-> FALSE, value |-> Clamp(hh, p1, rh)]

\* lines 91-97: the interpolation in log p.  A division by z2 = 0 raises,
\* and so does the read of the index of a two-element list.
LogInterpolate(p1, vin, mmin, mmax, rh) ==
  LET z1 == Log(p1) - Log(mmin[2])
      z2 == Log(mmax[2]) - Log(mmin[2])
  IN IF Len(mmax) < 3 \/ Len(mmin) < 3 \/ z2 = 0
     THEN [raised |-> TRUE, value |-> 0]
     ELSE LET z3 == vin[mmax[3]] - vin[mmin[3]]
              z4 == vin[mmin[3]]
              hh == z4 + Mul((z1 * Unit) \div z2, z3)
          IN [raised |-> FALSE, value |-> Clamp(hh, p1, rh)]

\* lines 73-89: the two bounds after the searches that follow the first
\* loop; mmin and mmax are <<gg, pressure, index>>, or <<gg, p1>> when no
\* source point was found for them
SearchBounds(p1, pin, first) ==
  LET below == IF first.mmax[2] = p1
               THEN SecondBelow(p1, pin, 1, first.mmin, <<0 - Far, p1>>)
               ELSE [raised |-> FALSE, m |-> first.mmax]
      mmin0 == IF first.mmin[2] = p1 THEN <<Far, p1>> ELSE first.mmin
      above == SecondAbove(p1, pin, 1, mmin0, below.m)
  IN [raised |-> below.raised \/ above.raised, mmin |-> above.m, mmax |-> below.m]

\* lines 52-99: one pass of the loop over the queries
InterPOne(p1, pin, vin, rh) ==
  LET first == FirstLoop(p1, pin, 1, <<0 - Far, p1>>, <<Far, p1>>, 0)
  IN IF first.cont THEN [raised |-> FALSE, value |-> vin[first.k]]
     ELSE LET b == SearchBounds(p1, pin, first)
          IN IF b.raised THEN [raised |-> TRUE, value |-> 0]
             ELSE LogInterpolate(p1, vin, b.mmin, b.mmax, rh)

\* lines 51-102: z holds one value for each query, in the order of p; an
\* exception leaves the function
RECURSIVE InterPFrom(_, _, _, _, _, _)
InterPFrom(p, pin, vin, rh, q, z) ==
  IF q > Len(p) THEN [raised |-> FALSE, z |-> z]
  ELSE LET one == InterPOne(p[q], pin, vin, rh)
       IN IF one.raised THEN [raised |-> TRUE, z |-> z]
          ELSE InterPFrom(p, pin, vin, rh, q + 1, Append(z, one.value))

interP(p, pin, vin, rh) == InterPFrom(p, pin, vin, rh, 1, <<>>)

\* the pressures of the source profiles and of the queries
SourcePressures == {20, 50, 100, 300}
QueryPressures == SourcePressures \cup {70}

\* the profile values: 0.002 and 0.004
ProfileValues == {2 * RhFloor, 4 * RhFloor}

SeqsUpTo(S, lo, hi) == UNION { [1..n -> S] : n \in lo..hi }

\* the calls of interP: up to MaxLevels source levels, vin as long as pin,
\* one or two queries, rh absent (<<>>) or given (the values 0 and 80)
InterPInit ==
  /\ RunOff
  /\ TapeOff
  /\ ProcessOff
  /\ ipc = "call"
  /\ iret = EmptyDict
  /\ \E n \in 0..MaxLevels :
       \E p \in SeqsUpTo(QueryPressures, 1, 2), pin \in [1..n -> SourcePressures],
          vin \in [1..n -> ProfileValues], rh \in {<<>>, <<0>>, <<80>>} :
         iargs = [p |-> p, pin |-> pin, vin |-> vin, rh |-> rh]

InterPCall ==
  /\ ipc = "call"
  /\ LET r == interP(iargs.p, iargs.pin, iargs.vin, iargs.rh)
     IN /\ iret' = r
        /\ ipc' = IF r.raised THEN "raised" ELSE "returned"
  /\ UNCHANGED <<runVars, tapeVars, processVars, iargs>>

InterPNext == InterPCall

SpecInterP == InterPInit /\ [][InterPNext]_vars

\* the source points equal to the query q of the call
Equal(q) == { k \in 1..Len(iargs.pin) : iargs.pin[k] = iargs.p[q] }

\* the first of them
FirstEqual(q) == CHOOSE k \in Equal(q) : \A j \in Equal(q) : k <= j

\* C10: a query pressure equal to a source pressure gets vin[k] of the first
\* such k, verbatim: no interpolation in log p, no relative-humidity clamp,
\* whatever the other source points are; a call whose queries all have an
\* equal source pressure returns
C10_ExactMatchVerbatim ==
  /\ ipc = "returned" =>
       \A q \in 1..Len(iargs.p) :
         Equal(q) # {} => iret.z[q] = iargs.vin[FirstEqual(q)]
  /\ (ipc # "call" /\ \A q \in 1..Len(iargs.p) : Equal(q) # {}) => ipc = "returned"

\* C10 witness: rh is given, the query 50 lies below 100 and equals two
\* source pressures, the first holding 0.004 (above 0.003) and the second
\* 0.002; 0.004 is returned for it, next to an interpolated query
C10_Witness ==
  /\ ipc = "returned"
  /\ iargs.rh # <<>>
  /\ iargs.p = <<50, 70>>
  /\ iargs.pin = <<50, 50, 100>>
  /\ iargs.vin = <<4 * RhFloor, 2 * RhFloor, 2 * RhFloor>>
  /\ iret.z[1] = 4 * RhFloor
  /\ iret.z[1] > RhLimit

\* the source points above and below the query q of the call
Above(q) == { k \in 1..Len(iargs.pin) : iargs.pin[k] > iargs.p[q] }
Below(q) == { k \in 1..Len(iargs.pin) : iargs.pin[k] < iargs.p[q] }

\* the source points with the smallest pressure above the query, and with
\* the largest pressure below it
NearestAbove(q) == { k \in Above(q) : \A j \in Above(q) : iargs.pin[k] <= iargs.pin[j] }
NearestBelow(q) == { k \in Below(q) : \A j \in Below(q) : iargs.pin[k] >= iargs.pin[j] }

\* the query q has no equal source point, and source points on both sides
Bracketed(q) == Equal(q) = {} /\ Above(q) # {} /\ Below(q) # {}

\* vin[mn] + (ln p - ln p_mn) / (ln p_mx - ln p_mn) * (vin[mx] - vin[mn])
LogFormula(q, mn, mx) ==
  iargs.vin[mn]
    + Mul(((Log(iargs.p[q]) - Log(iargs.pin[mn])) * Unit)
            \div (Log(iargs.pin[mx]) - Log(iargs.pin[mn])),
          iargs.vin[mx] - iargs.vin[mn])

Between(x, a, b) == (a <= x /\ x <= b) \/ (b <= x /\ x <= a)

\* the clamp of the relative-humidity context replaces the value v of query q
Clamped(q, v) == iargs.rh # <<>> /\ iargs.p[q] < 100 /\ v > RhLimit

\* the value of query q is the log interpolation between a nearest point
\* above and a nearest point below, and lies between their values
BracketValue(q) ==
  \E mx \in NearestAbove(q), mn \in NearestBelow(q) :
    /\ iret.z[q] = LogFormula(q, mn, mx)
    /\ Between(iret.z[q], iargs.vin[mn], iargs.vin[mx])

\* C11 as stated: every bracketed query gets the log interpolation between
\* the nearest source point above and the nearest below, a value between
\* vin[mn] and vin[mx]
C11_BracketedLogInterpolation ==
  ipc = "returned" => \A q \in 1..Len(iargs.p) : Bracketed(q) => BracketValue(q)

\* C11 amended: every bracketed query gets the log interpolation between the
\* nearest source point above and the nearest below, a value between vin[mn]
\* and vin[mx], unless the relative-humidity clamp replaces it by 0.001; a
\* call whose queries are all bracketed returns
C11_BracketedUnlessClamped ==
  /\ ipc = "returned" =>
       \A q \in 1..Len(iargs.p) :
         Bracketed(q) =>
           \/ BracketValue(q)
           \/ \E mx \in NearestAbove(q), mn \in NearestBelow(q) :
                Clamped(q, LogFormula(q, mn, mx)) /\ iret.z[q] = RhFloor
  /\ (ipc # "call" /\ \A q \in 1..Len(iargs.p) : Bracketed(q)) => ipc = "returned"

\* C11 witness: the query 70 between the levels 50 and 100 of an unsorted
\* profile whose values differ, a third level further away; the value
\* returned lies strictly between the two
C11_Witness ==
  /\ ipc = "returned"
  /\ iargs.p = <<70>>
  /\ iargs.pin = <<300, 100, 50>>
  /\ iargs.vin = <<4 * RhFloor, 4 * RhFloor, 2 * RhFloor>>
  /\ iargs.rh = <<>>
  /\ iret.z[1] > 2 * RhFloor
  /\ iret.z[1] < 4 * RhFloor

\* the query q lies below every source pressure or above every one
OneSided(q) ==
  /\ Len(iargs.pin) > 0
  /\ Equal(q) = {}
  /\ Above(q) = {} \/ Below(q) = {}

\* the source points nearest to a one-sided query
Nearest(q) == IF Above(q) = {} THEN NearestBelow(q) ELSE NearestAbove(q)

\* C12: a query below every source pressure or above every source pressure
\* gets the value of the nearest source point, a value inside the range of
\* the source values: nothing is extrapolated
C12_NoExtrapolation ==
  ipc = "returned" =>
    \A q \in 1..Len(iargs.p) :
      OneSided(q) =>
        /\ \E k \in Nearest(q) : iret.z[q] = iargs.vin[k]
        /\ \E i, j \in 1..Len(iargs.vin) : iargs.vin[i] <= iret.z[q] /\ iret.z[q] <= iargs.vin[j]

\* what the call returns with rh left out: the interpolated values as they
\* are before line 97
Raw == interP(iargs.p, iargs.pin, iargs.vin, <<>>)

\* C13: an interpolated value is replaced by exactly 0.001 if and only if
\* rh is given, the query pressure is below 100 and the value is above
\* 0.003; in every other case, in particular without rh, it is returned as
\* interpolated
C13_ClampOnlyWithFlag ==
  ipc = "returned" =>
    /\ ~Raw.raised
    /\ \A q \in 1..Len(iargs.p) :
         /\ Equal(q) = {} =>
              iret.z[q] = IF iargs.rh # <<>> /\ iargs.p[q] < 100 /\ Raw.z[q] > RhLimit
                          THEN RhFloor
                          ELSE Raw.z[q]
         /\ Bracketed(q) =>
              \E mx \in NearestAbove(q), mn \in NearestBelow(q) :
                iret.z[q] = IF Clamped(q, LogFormula(q, mn, mx))
                            THEN RhFloor
                            ELSE LogFormula(q, mn, mx)

\* C13 witness: p = 50 between two levels holding 0.004, rh given: 0.001 is
\* returned where the call without rh returns 0.004
C13_Witness ==
  /\ ipc = "returned"
  /\ iargs.p = <<50>>
  /\ iargs.pin = <<20, 100>>
  /\ iargs.rh = <<80>>
  /\ Raw.z = <<4 * RhFloor>>
  /\ iret.z = <<RhFloor>>

\* the source profile of the call holds one pressure, once or duplicated
OneLevel == Len(iargs.pin) > 0 /\ \A j, k \in 1..Len(iargs.pin) : iargs.pin[j] = iargs.pin[k]

\* C14: a call on a source profile with one pressure level (or with a
\* duplicated pressure as both bounds) does not raise: it returns for every
\* query a value of that level
C14_DegenerateProfileReturns ==
  (ipc # "call" /\ OneLevel) =>
    /\ ipc = "returned"
    /\ \A q \in 1..Len(iargs.p) : \E k \in 1..Len(iargs.vin) : iret.z[q] = iargs.vin[k]

(***************************************************************************)
(* The resampling of LblObject.run.                                        *)
(***************************************************************************)

\* the last solver invocation made
LastCall == calls[Len(calls)]

\* this step is the invocation of pass, and its return holds kind
Invoked(pass, kind) ==
  /\ Len(calls') = Len(calls) + 1
  /\ calls'[Len(calls')].pass = pass
  /\ Has(calls'[Len(calls')].results, kind)

\* the wavenumbers of a source spectrum ascend
Ascending(wn) == \A j \in 1..(Len(wn) - 1) : wn[j] < wn[j + 1]

\* the value at x of the line through (x1, y1) and (x2, y2)
OnLine(x, x1, y1, x2, y2) == ((y2 - y1) * (x - x1)) \div (x2 - x1) + y1

\* what an ascending source <<wn, val>> gives at x: the value of the first
\* source point below the range covered, of the last one above it, and
\* between two neighbouring source points the value on their line
ResampledAt(x, src) ==
  LET wn == src[1]
      val == src[2]
  IN IF x <= wn[1] THEN val[1]
     ELSE IF x >= wn[Len(wn)] THEN val[Len(wn)]
     ELSE LET j == CHOOSE j \in 1..(Len(wn) - 1) : wn[j] <= x /\ x < wn[j + 1]
          IN OnLine(x, wn[j], val[j], wn[j + 1], val[j + 1])

\* entry holds, times factor, one resampled value of src for each point of grid
Resampled(entry, grid, src, factor) ==
  /\ Len(entry) = Len(grid)
  /\ \A i \in 1..Len(grid) : entry[i] = ResampledAt(grid[i], src) * factor

\* the source is sampled on the grid itself
OnGrid(grid, src) == src[1] = grid

\* the step stores under key the resampling of the ascending spectrum
\* returned for kind, and the source values themselves if sampled on the grid
StoresResampled(pass, kind, key, factor) ==
  LET src == calls'[Len(calls')].results[kind]
  IN (Invoked(pass, kind) /\ Ascending(src[1])) =>
       /\ Resampled(output'[key], outputGrid, src, factor)
       /\ OnGrid(outputGrid, src) => output'[key] = Scale(src[2], factor)

C15_WitnessOutside ==
  /\ Len(calls) > 0
  /\ LastCall.pass = "radiance"
  /\ Has(LastCall.results, RADIANCE)
  /\ LastCall.results[RADIANCE] = << <<3, 5>>, <<1, 3>> >>
  /\ outputGrid = <<2, 3>>
  /\ output[RADIANCE] = <<CM2_TO_M2, CM2_TO_M2>>

\* the pairs of neighbouring source points that bracket x
Brackets(x, src) ==
  { j \in 1..(Len(src[1]) - 1) : src[1][j] <= x /\ x <= src[1][j + 1] /\ src[1][j] < src[1][j + 1] }

\* the step stores under key, for every grid point that neighbouring source
\* points bracket, the value on the line through such a pair
StoresBracketed(pass, kind, key) ==
  LET src == calls'[Len(calls')].results[kind]
  IN Invoked(pass, kind) =>
       /\ Len(output'[key]) = Len(outputGrid)
       /\ \A i \in 1..Len(outputGrid) :
            Brackets(outputGrid[i], src) # {} =>
              \E j \in Brackets(outputGrid[i], src) :
                output'[key][i] = OnLine(outputGrid[i], src[1][j], src[2][j],
                                         src[1][j + 1], src[2][j + 1])

\* C16: the resampling tolerates a source whose wavenumbers ascend inside
\* each panel but not across panels: every grid point still gets the linear
\* interpolation between two source points that bracket it
C16_UnsortedSourceBracketed ==
  [][ /\ StoresBracketed("opticalDepth", OPTICAL_DEPTH, OPTICAL_DEPTH)
      /\ StoresBracketed("solarOD", OPTICAL_DEPTH, SOLAR_OPTICAL_DEPTH) ]_vars

(***************************************************************************)
(* Two LblObject instances of one process, constructed and run             *)
(* concurrently: LblObject.__init__ (lines 1173-1185) and the file and     *)
(* solver steps of LblObject.run (lines 1314-1343).  A solver invocation   *)
(* is given no directory (lines 1326, 1343) and so runs in the working     *)
(* directory of the process.                                               *)
(***************************************************************************)
Instances == {1, 2}

\* the work paths the instances are created with
workPath == <<"workA", "workB">>

\* an entry of the history
Op(inst, kind, path) == [inst |-> inst, kind |-> kind, path |-> path]

ProcessInit ==
  /\ RunOff
  /\ TapeOff
  /\ InterPOff
  /\ cwd \in {"start", "workA"}
  /\ opc \in [Instances -> {"new"}]
  /\ ops = {}

\* lines 1174-1185: os.chdir(self.workPath), then makeWorkPath
Construct(i) ==
  /\ opc[i] = "new"
  /\ cwd' = workPath[i]
  /\ opc' = [opc EXCEPT ![i] = "made"]
  /\ ops' = ops \cup {Op(i, "makedirs", workPath[i])}
  /\ UNCHANGED <<runVars, tapeVars, interPVars>>

\* lines 1314-1320: the solar file is linked into self.workPath, when
\* upwelling or downwelling is asked for
SetupSolarFile(i) ==
  /\ opc[i] = "made"
  /\ opc' = [opc EXCEPT ![i] = "opticalDepth"]
  /\ \/ ops' = ops \cup {Op(i, "solarFile", workPath[i])}
     \/ ops' = ops
  /\ UNCHANGED <<runVars, tapeVars, interPVars, cwd>>

\* lines 1324 and 1342: writeTape5(self.workPath, ...)
WriteTape5File(i, from, to) ==
  /\ opc[i] = from
  /\ opc' = [opc EXCEPT ![i] = to]
  /\ ops' = ops \cup {Op(i, "tape5", workPath[i])}
  /\ UNCHANGED <<runVars, tapeVars, interPVars, cwd>>

\* lines 1326 and 1343: run(...), in the working directory of the process
InvokeSolver(i, from, to) ==
  /\ opc[i] = from
  /\ opc' = [opc EXCEPT ![i] = to]
  /\ ops' = ops \cup {Op(i, "solver", cwd)}
  /\ UNCHANGED <<runVars, tapeVars, interPVars, cwd>>

ProcessNext ==
  \E i \in Instances :
    \/ Construct(i)
    \/ SetupSolarFile(i)
    \/ WriteTape5File(i, "opticalDepth", "opticalDepthRun")
    \/ InvokeSolver(i, "opticalDepthRun", "radiance")
    \/ WriteTape5File(i, "radiance", "radianceRun")
    \/ InvokeSolver(i, "radianceRun", "done")

SpecProcess == ProcessInit /\ [][ProcessNext]_vars

\* C17: two instances with distinct work paths, constructed and run in any
\* interleaving: every scratch file touched and every solver invocation
\* made for an instance is in the work path of that instance
C17_InstancesDoNotInterfere ==
  \A op \in ops : op.path = workPath[op.inst]

\* the flags ask for at least one output kind
AnyRequested == \E name \in FlagNames : flags[name]

\* C18: when at least one output kind was asked for and no pass produced
\* one, run does not return an ordinary result without entries
C18_EmptyResultReported ==
  (pc = "done" /\ AnyRequested) => output # EmptyDict

\* the spectral entries of the result
SpectralKeys == {OPTICAL_DEPTH, RADIANCE, SOLAR_OPTICAL_DEPTH, SOLAR_RADIANCE}

\* int((v2 - v1) / dv + 0.5) of the request
PointCount ==
  (2 * (rtParameters["v2"] - rtParameters["v1"]) + rtParameters["dv"])
    \div (2 * rtParameters["dv"])

\* C19: once run has started, the output grid is v1 + i*dv for i = 0..n-1,
\* n = int((v2 - v1)/dv + 0.5), and every spectral entry of the result holds
\* exactly one value per point of that grid, so the composition combines
\* sequences of one length, index by index
C19_OneGridForAllEntries ==
  pc \notin {"off", "start"} =>
    /\ Len(outputGrid) = PointCount
    /\ \A i \in 1..Len(outputGrid) :
         outputGrid[i] = rtParameters["v1"] + (i - 1) * rtParameters["dv"]
    /\ \A key \in SpectralKeys :
         Has(output, key) => Len(output[key]) = Len(outputGrid)

\* C19 witness: a run that composed the upwelling radiance on a grid of
\* three points from sources of two, three and four points
C19_Witness ==
  /\ pc = "done"
  /\ Performed("upwellingCompose")
  /\ Len(outputGrid) = 3
  /\ \A key \in SpectralKeys : Has(output, key) /\ Len(output[key]) = 3
  /\ \E i \in 1..Len(calls) :
       /\ calls[i].pass = "opticalDepth"
       /\ calls[i].results[OPTICAL_DEPTH][1] = <<4, 5, 2, 3>>
  /\ \E i \in 1..Len(calls) :
       /\ calls[i].pass = "radiance"
       /\ calls[i].results[RADIANCE][1] = <<3, 5>>

\* the solver invocations made so far
Invocations == { i \in 1..Len(calls) : calls[i].pass \in SolverPasses }

\* C20: a call of run makes at least 1 and at most 4 solver invocations,
\* whatever the flags
C20_OneToFourInvocations ==
  pc = "done" => Cardinality(Invocations) \in 1..4

(***************************************************************************)
(* The order and the selection of the passes of LblObject.run.             *)
(***************************************************************************)

\* the place of a pass in the order optical depth, radiance, downwelling
\* solar optical depth, downwelling solar radiance, solar irradiance,
\* upwelling composition
Rank(pass) ==
  CASE pass = "opticalDepth" -> 1
    [] pass = "radiance" -> 2
    [] pass = "solarOD" -> 3
    [] pass = "downRadiance" -> 4
    [] pass = "solarIrradiance" -> 5
    [] OTHER -> 6

\* the history holds the passes in that order, none twice
Ordered(h) == \A i, j \in 1..Len(h) : i < j => Rank(h[i].pass) < Rank(h[j].pass)

\* C21: the solver invocations of a call of run are made one at a time, in
\* the order optical depth, radiance, downwelling solar optical depth,
\* downwelling solar radiance, solar irradiance; the result takes the output
\* of an invocation only in the step in which the invocation has returned;
\* the upwelling composition comes after every invocation
C21_PassesInOrder ==
  [][ /\ Ordered(calls')
      /\ Len(calls') <= Len(calls) + 1
      /\ \A i \in 1..Len(calls) : calls'[i] = calls[i]
      /\ (output' # output /\ pc # "upwelling") =>
           /\ Len(calls') = Len(calls) + 1
           /\ calls'[Len(calls')].pass \in SolverPasses
           /\ calls'[Len(calls')].ok ]_vars

\* C21 witness: a run that made all five invocations and then composed
C21_Witness ==
  /\ pc = "done"
  /\ Len(calls) = 6
  /\ [i \in 1..6 |-> calls[i].pass]
       = <<"opticalDepth", "radiance", "solarOD", "downRadiance", "solarIrradiance",
           "upwellingCompose">>

\* the effective value of a flag: the entry of the request when present,
\* the keyword argument otherwise
Effective(name) == IF Has(rtParameters, name) THEN rtParameters[name] ELSE kw[name]

\* the invocation of pass returned its kind
Succeeded(pass) == \E i \in 1..Len(calls) : calls[i].pass = pass /\ calls[i].ok

AllSucceeded == \A i \in Invocations : calls[i].ok

\* C23: a run with upwellingFlag set has run the optical-depth, the
\* radiance and the solar-irradiance pass when it returns, whatever
\* opticalDepthFlag and radianceFlag are, and if all its invocations
\* succeeded its result holds the composed solarRadiance
C23_UpwellingRunsItsInputs ==
  (pc = "done" /\ flags["upwellingFlag"]) =>
    /\ Performed("opticalDepth")
    /\ Performed("radiance")
    /\ Performed("solarIrradiance")
    /\ AllSucceeded => (Performed("upwellingCompose") /\ Has(output, SOLAR_RADIANCE))

\* C24: a returned result that holds a spectral entry also holds the
\* waveNumber entry, the output grid
C24_WaveNumberWithSpectra ==
  (pc = "done" /\ \E key \in SpectralKeys : Has(output, key)) =>
    (Has(output, WAVE_NUMBER) /\ output[WAVE_NUMBER] = outputGrid)


\* the panel a record of a written file belongs to: one header and nvars
\* data vectors per panel, after the file header
PanelOfRecord(k, nvars) == ((k - 2) \div (1 + nvars)) + 1

\* C25: every data vector readTape12 appends has the point count its panel's
\* header declares and the panel contributes that many wavenumbers: when a
\* data record of a panel holds another number of values, decoding ends
\* there without raising and returns the panels before it, nothing of that
\* record or its panel appended
C25_VectorsMatchPointCount ==
  (TapeDone /\ wreq = EmptyDict /\ targs.damage \in {"long", "short"}) =>
    /\ tpc = "returned"
    /\ HoldsPanels(tret, SubSeq(tpanels, 1, PanelOfRecord(targs.at, targs.nvars) - 1),
                   targs.nvars)


\* record k is the last record before a panel header or the end of the file
BeforePanel(k, nvars) == (k - 1) % (1 + nvars) = 0

\* C26: readTape12 consumes the first record as the file header, also when
\* it has the size of a panel header; records of another size than a panel
\* header that stand before a panel are discarded and the first record of
\* header size is taken as the panel header, so such files decode to the
\* panels written; every record is taken from the file at most once, which
\* bounds the decoding by the length of the file, and a decode that ends at
\* the end of the stream has taken them all
C26_HeaderScanTerminates ==
  /\ TapeDone =>
       /\ tret.read <= Len(tstream)
       /\ tret.stopped = "eof" => tret.read = Len(tstream)
  /\ (TapeDone /\ wreq = EmptyDict
        /\ \/ targs.damage = "head"
           \/ targs.damage = "insert" /\ BeforePanel(targs.at, targs.nvars))
     => (/\ tpc = "returned"
         /\ tret.stopped = "eof"
         /\ HoldsPanels(tret, tpanels, targs.nvars))

\* C26 witnesses: a decode of two panels with an unrelated record between
\* them, and one of a file whose header has the size of a panel header
C26_Witness ==
  /\ tpc = "returned"
  /\ wreq = EmptyDict
  /\ targs.damage = "insert"
  /\ targs.at = 1 + (1 + targs.nvars)
  /\ Len(tpanels) = 2
  /\ tret.panels = 2

C26_WitnessHeader ==
  /\ tpc = "returned"
  /\ wreq = EmptyDict
  /\ targs.damage = "head"
  /\ tstream[1].bytes = CalcSize(HeaderFormat(targs.double, targs.longSize))
  /\ tret.panels = Len(tpanels)


\* the bounds interP uses for the query q of the call
BoundsOf(q) ==
  SearchBounds(iargs.p[q], iargs.pin,
               FirstLoop(iargs.p[q], iargs.pin, 1, <<0 - Far, iargs.p[q]>>, <<Far, iargs.p[q]>>, 0))

\* both bounds of the query q name a source point
BothFound(q) == Len(BoundsOf(q).mmin) = 3 /\ Len(BoundsOf(q).mmax) = 3

\* C27: for a query that equals no source pressure, the source indices
\* interP uses as lower and upper bound are distinct, also when the query
\* lies beyond one edge of the source grid; every value interP returns for
\* such a query was interpolated between two distinct source points
C27_BoundsDistinct ==
  ipc # "call" =>
    \A q \in 1..Len(iargs.p) :
      Equal(q) = {} =>
        /\ BothFound(q) => BoundsOf(q).mmin[3] # BoundsOf(q).mmax[3]
        /\ ipc = "returned" =>
             /\ ~BoundsOf(q).raised
             /\ BothFound(q)
             /\ iargs.pin[BoundsOf(q).mmin[3]] # iargs.pin[BoundsOf(q).mmax[3]]

\* C27 witness: a returned call with a query above every source pressure and
\* one below every source pressure, each with two distinct bounds on its side
C27_Witness ==
  /\ ipc = "returned"
  /\ Len(iargs.p) = 2
  /\ Equal(1) = {} /\ Above(1) = {}
  /\ Equal(2) = {} /\ Below(2) = {}
  /\ BothFound(1) /\ BoundsOf(1).mmin[3] # BoundsOf(1).mmax[3]
  /\ BothFound(2) /\ BoundsOf(2).mmin[3] # BoundsOf(2).mmax[3]


\* a file written by writeReflectance is at hand
Written == wreq # EmptyDict /\ tpc # "write"

\* the grid of the request: its span with the guard bands, the number of
\* points nWN, and the scale its wavenumbers are counted in
WrittenSpan == wreq.v2 - wreq.v1 + 2 * guardWN
WrittenPoints == GridPoints(WrittenSpan, wreq.dv)
WrittenDen == GridDen(WrittenSpan, wreq.dv)

\* the block headers of the written file in their order, and the
\* terminating headers
FirstBlock == CHOOSE i \in WrittenBlocks(tstream) : \A j \in WrittenBlocks(tstream) : i <= j
Terminators ==
  { i \in 1..Len(tstream) : tstream[i].fmt = "ddfi" /\ tstream[i].fields[4] = EndMarker }

\* block i follows block h with no block between them
NextBlock(h, i) ==
  /\ h \in WrittenBlocks(tstream) /\ i \in WrittenBlocks(tstream) /\ h < i
  /\ \A j \in WrittenBlocks(tstream) : ~(h < j /\ j < i)

\* C28: the blocks written by writeReflectance tile the grid: the first
\* starts at int(v1) - 4, every later block starts one step dv after the
\* last point of the block before it, every block has 1 to 2400 points, the
\* point counts sum to nWN, which is at most 24000, and the file ends with
\* one terminating header of point count -99
C28_BlocksTileGrid ==
  Written =>
    /\ WrittenBlocks(tstream) # {}
    /\ tstream[FirstBlock].fields[1] = (wreq.v1 - guardWN) * WrittenDen
    /\ \A h, i \in WrittenBlocks(tstream) :
         NextBlock(h, i) =>
           tstream[i].fields[1] = tstream[h].fields[2] + tstream[i].fields[3]
    /\ \A i \in WrittenBlocks(tstream) :
         tstream[i].fields[4] >= 1 /\ tstream[i].fields[4] <= maxBlock
    /\ WrittenBefore(tstream, Len(tstream) + 1) = WrittenPoints
    /\ WrittenPoints <= maxWN
    /\ Terminators = {Len(tstream)}

====
